---- MODULE Spec2Model ----
(***************************************************************************)
(* A model of mta_extractor.py: the MTA container decoder (locator, entry  *)
(* table walker, header parser, payload transformer) and the extraction    *)
(* orchestrator extract_mta.  Bytes are integers 0..255, byte strings and  *)
(* text strings are sequences of integers (byte values, code points).      *)
(***************************************************************************)
EXTENDS Integers, Sequences, FiniteSets, TLC

VARIABLES
    pc,                 \* position in the function being run
    data,               \* the container bytes (mta_path.read_bytes())
    dwav_section_start, \* result of find_dwav_section (None is -1)
    entries,            \* result of parse_audio_entries: <<idx, abs_offset>> pairs
    i,                  \* 1-based position of the loop of extract_mta in entries
    size,               \* extent of the current entry
    header,             \* data[start:start+80] of the current entry
    name,               \* extract_sample_name(header)
    sample_rate,        \* parse_audio_header(header)[0]
    channels,           \* parse_audio_header(header)[1]
    pcm_data,           \* payload slice of the current entry
    processed_pcm,      \* process_pcm_data(pcm_data, channels)
    extracted_count,    \* the running success counter
    dir_exists,         \* out_dir exists
    files,              \* names of the files in out_dir
    result,             \* value returned by extract_mta (-1 before it returns)
    printed,            \* messages printed by extract_mta
    st,                 \* per-entry extraction state (the state machine view)
    wav_calls,          \* every writeframes call: [entry, path, channels, rate, pcm]
    parser_calls,       \* every parse_audio_header call: [entry, start, header]
    io_failed           \* entries whose WAV write failed with an I/O error

vars == <<pc, data, dwav_section_start, entries, i, size, header, name,
          sample_rate, channels, pcm_data, processed_pcm, extracted_count,
          dir_exists, files, result, printed, st, wav_calls, parser_calls,
          io_failed>>

-----------------------------------------------------------------------------
(* Program constants *)

MIN_FILE_LEN == 200
DWAV_PTR_OFFSET == 196
ENTRY_SIZE == 32
MAX_INDEX == 65535
HEADER_SIZE == 80
NAME_SIZE == 16
RATE_OFFSET == 54
CHANNEL_OFFSET == 73
DEFAULT_RATE == 44100

None == -1

Min(a, b) == IF a < b THEN a ELSE b

-----------------------------------------------------------------------------
(* Python primitives used by the source *)

\* s[a:b] of a bytes object or str, for a >= 0 (indices are clamped to len(s))
Slice(s, a, b) ==
    LET lo == Min(a, Len(s))
        hi == Min(b, Len(s))
    IN  IF hi <= lo THEN <<>> ELSE SubSeq(s, lo + 1, hi)

\* int.from_bytes(bs, "big")
RECURSIVE from_bytes_big(_)
from_bytes_big(bs) ==
    IF bs = <<>> THEN 0
    ELSE from_bytes_big(SubSeq(bs, 1, Len(bs) - 1)) * 256 + bs[Len(bs)]

\* bytes.decode('ascii', errors='ignore'): bytes >= 0x80 are dropped
decode_ascii_ignore(bs) == SelectSeq(bs, LAMBDA b : b < 128)

\* str.isspace() on an ASCII character
IsSpace(c) == c \in (9..13) \cup (28..32)

\* str.isalnum() on an ASCII character
IsAlnum(c) == c \in (48..57) \cup (65..90) \cup (97..122)

RECURSIVE LStrip(_)
LStrip(s) ==
    IF s = <<>> THEN s
    ELSE IF IsSpace(s[1]) THEN LStrip(Tail(s)) ELSE s

RECURSIVE RStrip(_)
RStrip(s) ==
    IF s = <<>> THEN s
    ELSE IF IsSpace(s[Len(s)]) THEN RStrip(SubSeq(s, 1, Len(s) - 1)) ELSE s

\* str.strip()
Strip(s) == RStrip(LStrip(s))

\* the decimal digits of n >= 0, as code points
RECURSIVE Digits(_)
Digits(n) ==
    IF n < 10 THEN <<48 + n>> ELSE Append(Digits(n \div 10), 48 + (n % 10))

\* f"{idx:03d}"
Fmt03(idx) ==
    LET d == Digits(idx)
    IN  IF Len(d) >= 3 THEN d
        ELSE [k \in 1..(3 - Len(d)) |-> 48] \o d

-----------------------------------------------------------------------------
(* find_dwav_section *)

find_dwav_section(d) ==
    IF Len(d) < MIN_FILE_LEN THEN None
    ELSE LET start == from_bytes_big(Slice(d, DWAV_PTR_OFFSET, MIN_FILE_LEN))
         IN  IF start >= Len(d) THEN None ELSE start

-----------------------------------------------------------------------------
(* parse_audio_entries *)

\* the while loop, from the record at offset with the entries found so far
RECURSIVE parse_loop(_, _, _, _)
parse_loop(d, dwav_offset, offset, acc) ==
    IF ~(offset + ENTRY_SIZE <= Len(d)) THEN acc
    ELSE LET idx == from_bytes_big(Slice(d, offset, offset + 4))
         IN  IF idx = 0 \/ idx > MAX_INDEX THEN acc
             ELSE LET audio_ptr == from_bytes_big(Slice(d, offset + 8, offset + 12))
                      abs_offset == dwav_offset + audio_ptr
                  IN  IF abs_offset >= Len(d) THEN acc
                      ELSE parse_loop(d, dwav_offset, offset + ENTRY_SIZE,
                                      Append(acc, <<idx, abs_offset>>))

\* a walker that skips an invalid record instead of stopping at it
RECURSIVE parse_loop_skipping(_, _, _, _)
parse_loop_skipping(d, dwav_offset, offset, acc) ==
    IF ~(offset + ENTRY_SIZE <= Len(d)) THEN acc
    ELSE LET idx == from_bytes_big(Slice(d, offset, offset + 4))
             audio_ptr == from_bytes_big(Slice(d, offset + 8, offset + 12))
             abs_offset == dwav_offset + audio_ptr
         IN  IF idx = 0 \/ idx > MAX_INDEX \/ abs_offset >= Len(d)
             THEN parse_loop_skipping(d, dwav_offset, offset + ENTRY_SIZE, acc)
             ELSE parse_loop_skipping(d, dwav_offset, offset + ENTRY_SIZE,
                                      Append(acc, <<idx, abs_offset>>))

parse_audio_entries_skipping(d, dwav_offset) ==
    parse_loop_skipping(d, dwav_offset, dwav_offset + ENTRY_SIZE, <<>>)

parse_audio_entries(d, dwav_offset) ==
    parse_loop(d, dwav_offset, dwav_offset + ENTRY_SIZE, <<>>)

-----------------------------------------------------------------------------
(* extract_sample_name *)

extract_sample_name(h) ==
    SelectSeq(Strip(decode_ascii_ignore(Slice(h, 0, NAME_SIZE))),
              LAMBDA c : c # 0)

-----------------------------------------------------------------------------
(* parse_audio_header: header[0x49] raises IndexError on a short header *)

parse_audio_header(h) ==
    IF Len(h) <= CHANNEL_OFFSET
    THEN [raised |-> TRUE, sample_rate |-> 0, channels |-> 0]
    ELSE LET rate == from_bytes_big(Slice(h, RATE_OFFSET, RATE_OFFSET + 2))
         IN  [raised |-> FALSE,
              sample_rate |-> IF rate = 0 THEN DEFAULT_RATE ELSE rate,
              channels |-> IF h[CHANNEL_OFFSET + 1] = 2 THEN 2 ELSE 1]

-----------------------------------------------------------------------------
(* process_pcm_data *)

\* array.array('h', bs).byteswap().tobytes(), for len(bs) even
byteswap(bs) ==
    [k \in 1..Len(bs) |-> IF k % 2 = 1 THEN bs[k + 1] ELSE bs[k - 1]]

\* the buffer handed to array.array('h', ...)
pcm_retained(pcm, ch) ==
    LET even == IF Len(pcm) % 2 # 0 THEN Slice(pcm, 0, Len(pcm) - 1) ELSE pcm
    IN  IF ch = 1 THEN Slice(even, 0, Len(even) \div 2) ELSE even

\* a transformer that swaps the complete samples and keeps a trailing odd byte
process_pcm_data_lenient(pcm, ch) ==
    LET kept == pcm_retained(pcm, ch)
        whole == Slice(kept, 0, Len(kept) - (Len(kept) % 2))
    IN  [raised |-> FALSE,
         bytes |-> byteswap(whole) \o Slice(kept, Len(whole), Len(kept))]

\* array.array('h', bs) raises ValueError when len(bs) is not a multiple of 2
process_pcm_data(pcm, ch) ==
    LET kept == pcm_retained(pcm, ch)
    IN  IF Len(kept) % 2 # 0
        THEN [raised |-> TRUE, bytes |-> <<>>]
        ELSE [raised |-> FALSE, bytes |-> byteswap(kept)]

-----------------------------------------------------------------------------
(* sanitize_filename *)

\* f"sample_{idx:03d}"
sample_fallback(idx) == <<115, 97, 109, 112, 108, 101, 95>> \o Fmt03(idx)

sanitize_filename(nm, idx) ==
    IF nm = <<>> THEN sample_fallback(idx)
    ELSE LET clean_name ==
                 Strip(SelectSeq(nm, LAMBDA c : IsAlnum(c) \/ c \in {32, 95, 45}))
         IN  IF clean_name = <<>> THEN sample_fallback(idx) ELSE clean_name

\* f"{idx:03d}_{clean_name}.wav"
out_name(idx, clean_name) ==
    Fmt03(idx) \o <<95>> \o clean_name \o <<46, 119, 97, 118>>

-----------------------------------------------------------------------------
(* Building containers *)

Zeros(k) == [j \in 1..k |-> 0]

\* n as 4 big-endian bytes
BE32(n) == <<(n \div 16777216) % 256, (n \div 65536) % 256, (n \div 256) % 256, n % 256>>

\* one 32-byte record of the entry table
Record(idx, ptr) == BE32(idx) \o Zeros(4) \o BE32(ptr) \o Zeros(20)

RECURSIVE Concat(_)
Concat(ss) == IF ss = <<>> THEN <<>> ELSE Head(ss) \o Concat(Tail(ss))

\* all sequences over S of length 0..n
SeqsUpTo(S, n) == UNION {[1..k -> S] : k \in 0..n}

-----------------------------------------------------------------------------
(* The state of a run in which extract_mta has not touched anything yet *)

LocalsInit ==
    /\ i = 0
    /\ size = 0
    /\ header = <<>>
    /\ name = <<>>
    /\ sample_rate = 0
    /\ channels = 0
    /\ pcm_data = <<>>
    /\ processed_pcm = <<>>

RunInit ==
    /\ extracted_count = 0
    /\ dir_exists = FALSE
    /\ files = {}
    /\ result = None
    /\ printed = <<>>
    /\ st = <<>>
    /\ wav_calls = <<>>
    /\ parser_calls = <<>>
    /\ io_failed = {}

run_vars == <<extracted_count, dir_exists, files, result, printed, st,
              wav_calls, parser_calls, io_failed>>

-----------------------------------------------------------------------------
(* parse_audio_entries as a function of its arguments *)

MaxRecords == 3

IdxSamples == {0, 1, MAX_INDEX, MAX_INDEX + 1}

\* where a record points: the section start, the last byte of the container,
\* or one past its end
PtrKinds == {"first", "last", "end"}

LeadSamples == {0, 8}

\* the bytes after the last whole record: none, or 31 bytes of a valid record
TailSamples == {0, ENTRY_SIZE - 1}

WalkerLen(lead, n, tail) == lead + ENTRY_SIZE + n * ENTRY_SIZE + tail

WalkerPtr(kind, lead, n, tail) ==
    CASE kind = "first" -> 0
      [] kind = "last" -> WalkerLen(lead, n, tail) - 1 - lead
      [] kind = "end" -> WalkerLen(lead, n, tail) - lead

\* the section offset passed to the walker is the section's, or that of the
\* container's last byte; lead bytes, a 32-byte section header that looks like a valid record, the
\* records, and the tail
WalkerContainer(lead, recs, tail) ==
    Zeros(lead) \o Record(9, 0)
    \o Concat([k \in 1..Len(recs) |->
                 Record(recs[k][1], WalkerPtr(recs[k][2], lead, Len(recs), tail))])
    \o Slice(Record(1, 0), 0, tail)

InitWalker ==
    /\ pc = "call_parse_audio_entries"
    /\ \E lead \in LeadSamples, tail \in TailSamples,
          recs \in SeqsUpTo(IdxSamples \X PtrKinds, MaxRecords) :
          /\ data = WalkerContainer(lead, recs, tail)
          /\ dwav_section_start \in {lead, WalkerLen(lead, Len(recs), tail) - 1}
    /\ entries = <<>>
    /\ LocalsInit
    /\ RunInit

CallParseAudioEntries ==
    /\ pc = "call_parse_audio_entries"
    /\ entries' = parse_audio_entries(data, dwav_section_start)
    /\ pc' = "returned"
    /\ UNCHANGED <<data, dwav_section_start, i, size, header, name, sample_rate,
                   channels, pcm_data, processed_pcm, run_vars>>

NextWalker == CallParseAudioEntries

SpecWalker == InitWalker /\ [][NextWalker]_vars

\* the whole 32-byte records from section_offset + 32 that lie inside the container
NumRecords(d, so) ==
    IF Len(d) < so + ENTRY_SIZE THEN 0 ELSE (Len(d) - so - ENTRY_SIZE) \div ENTRY_SIZE

RecIdx(d, so, j) ==
    from_bytes_big(SubSeq(d, so + ENTRY_SIZE * j + 1, so + ENTRY_SIZE * j + 4))

RecPtr(d, so, j) ==
    from_bytes_big(SubSeq(d, so + ENTRY_SIZE * j + 9, so + ENTRY_SIZE * j + 12))

RecValid(d, so, j) ==
    /\ RecIdx(d, so, j) \in 1..MAX_INDEX
    /\ so + RecPtr(d, so, j) < Len(d)

\* length of the longest prefix of valid records
ValidPrefix(d, so) ==
    CHOOSE m \in 0..NumRecords(d, so) :
        /\ \A j \in 1..m : RecValid(d, so, j)
        /\ m = NumRecords(d, so) \/ ~RecValid(d, so, m + 1)

\* C2: parse_audio_entries returns exactly the longest prefix of the whole
\* records after the section header in which every record has an index in
\* 1..0xFFFF and section_offset + pointer < length, as (index,
\* section_offset + pointer) pairs in table order; nothing after the first
\* invalid record is included.
C2_LongestValidPrefix ==
    pc = "returned" =>
        entries = [j \in 1..ValidPrefix(data, dwav_section_start) |->
                     <<RecIdx(data, dwav_section_start, j),
                       dwav_section_start + RecPtr(data, dwav_section_start, j)>>]

\* a returned table of one entry that stopped at an invalid record which is
\* itself followed by a valid record
C2_Witness ==
    /\ pc = "returned"
    /\ Len(entries) = 1
    /\ NumRecords(data, dwav_section_start) = 3
    /\ ~RecValid(data, dwav_section_start, 2)
    /\ RecValid(data, dwav_section_start, 3)

-----------------------------------------------------------------------------
(* process_pcm_data as a function of its arguments *)

MaxPcmLen == 8

PcmBytes == {18, 52, 171}

InitPcm ==
    /\ pc = "call_process_pcm_data"
    /\ pcm_data \in SeqsUpTo(PcmBytes, MaxPcmLen)
    /\ channels \in {1, 2}
    /\ data = <<>>
    /\ dwav_section_start = None
    /\ entries = <<>>
    /\ i = 0
    /\ size = 0
    /\ header = <<>>
    /\ name = <<>>
    /\ sample_rate = 0
    /\ processed_pcm = <<>>
    /\ RunInit

CallProcessPcmData ==
    /\ pc = "call_process_pcm_data"
    /\ LET r == process_pcm_data(pcm_data, channels)
       IN  /\ pc' = IF r.raised THEN "raised" ELSE "returned"
           /\ processed_pcm' = r.bytes
    /\ UNCHANGED <<data, dwav_section_start, entries, i, size, header, name,
                   sample_rate, channels, pcm_data, run_vars>>

NextPcm == CallProcessPcmData

SpecPcm == InitPcm /\ [][NextPcm]_vars

\* the 16-bit samples of an even-length buffer, each a <<first, second>> byte pair
Samples(bs) == [k \in 1..(Len(bs) \div 2) |-> <<bs[2 * k - 1], bs[2 * k]>>]

\* the byte range to retain: the last byte dropped when the
\* length is odd, then for mono the first half by byte count
ClaimedRange(pcm, ch) ==
    LET evenLen == Len(pcm) - (Len(pcm) % 2)
    IN  SubSeq(pcm, 1, IF ch = 1 THEN evenLen \div 2 ELSE evenLen)

\* C5: for every payload and channels in {1, 2}, process_pcm_data returns,
\* without failing, an even-length buffer holding the samples of the retained
\* range (last byte dropped if odd, first half only for mono) in order, each
\* with its two bytes swapped.
C5_ReturnsEvenSwapped ==
    pc # "call_process_pcm_data" =>
        /\ pc = "returned"
        /\ Len(processed_pcm) % 2 = 0
        /\ Len(processed_pcm) = Len(ClaimedRange(pcm_data, channels))
        /\ \A k \in 1..(Len(processed_pcm) \div 2) :
              Samples(processed_pcm)[k] =
                  <<ClaimedRange(pcm_data, channels)[2 * k],
                    ClaimedRange(pcm_data, channels)[2 * k - 1]>>

-----------------------------------------------------------------------------
(* extract_sample_name as a function of its argument *)

MaxNameLen == 3

\* NUL, tab, space, '!', 'A', and a byte that is not ASCII
NameBytes == {0, 9, 32, 33, 65, 200}

\* the byte a name field is padded with
PadBytes == {0, 32}

\* a 16-byte name field: the given bytes, padded
NameField(prefix, pad) == prefix \o [k \in 1..(NAME_SIZE - Len(prefix)) |-> pad]

InitName ==
    /\ pc = "call_extract_sample_name"
    /\ \E prefix \in SeqsUpTo(NameBytes, MaxNameLen), pad \in PadBytes :
          header = NameField(prefix, pad) \o [k \in 1..(HEADER_SIZE - NAME_SIZE) |-> 66]
    /\ name = <<>>
    /\ data = <<>>
    /\ dwav_section_start = None
    /\ entries = <<>>
    /\ i = 0
    /\ size = 0
    /\ sample_rate = 0
    /\ channels = 0
    /\ pcm_data = <<>>
    /\ processed_pcm = <<>>
    /\ RunInit

CallExtractSampleName ==
    /\ pc = "call_extract_sample_name"
    /\ name' = extract_sample_name(header)
    /\ pc' = "returned"
    /\ UNCHANGED <<data, dwav_section_start, entries, i, size, header,
                   sample_rate, channels, pcm_data, processed_pcm, run_vars>>

NextName == CallExtractSampleName

SpecName == InitName /\ [][NextName]_vars

\* C10: extract_sample_name returns a NUL/whitespace-trimmed name: no NUL
\* character in it, and no whitespace at either end.
C10_NameTrimmed ==
    pc = "returned" =>
        /\ \A k \in 1..Len(name) : name[k] # 0
        /\ name # <<>> => ~IsSpace(name[1]) /\ ~IsSpace(name[Len(name)])

-----------------------------------------------------------------------------
(* The containers extract_mta is run on *)

MaxEntries == 2

MaxPayload == 4

\* a block is a whole header with 0..MaxPayload payload bytes, or half a header
BlockLens == {HEADER_SIZE \div 2} \cup {HEADER_SIZE + k : k \in 0..MaxPayload}

\* channel marker bytes: mono, stereo
MarkerSamples == {0, 2}

\* how the entries are labelled: index k and name "A" for all; index 1 and
\* names "A", "B", ...; index 1 and names that sanitize to "A" ("A", "A!",
\* "A!!", ...); index 1 with blank names
LabelSchemes == {"distinct", "named", "alike", "blank"}

LabelIdx(scheme, k) == IF scheme = "distinct" THEN k ELSE 1

LabelName(scheme, k) ==
    CASE scheme = "distinct" -> <<65>>
      [] scheme = "named" -> <<64 + k>>
      [] scheme = "alike" -> <<65>> \o [j \in 1..(k - 1) |-> 33]
      [] scheme = "blank" -> <<32>>

\* an 80-byte sample header
SampleHeader(nm, rate, marker) ==
    NameField(nm, 0)
    \o Zeros(RATE_OFFSET - NAME_SIZE)
    \o <<rate \div 256, rate % 256>>
    \o Zeros(CHANNEL_OFFSET - RATE_OFFSET - 2)
    \o <<marker>>
    \o Zeros(HEADER_SIZE - CHANNEL_OFFSET - 1)

\* payload bytes, all different
PayloadBytes(n) == [k \in 1..n |-> 16 + k]

\* block k: its header and payload cut to the block's length (the first block
\* carries a rate of 22050, the others none)
Block(scheme, k, b) ==
    Slice(SampleHeader(LabelName(scheme, k), IF k = 1 THEN 22050 ELSE 0, b.marker)
            \o PayloadBytes(MaxPayload),
          0, b.blen)

RECURSIVE SumLens(_, _)
SumLens(blocks, k) == IF k = 0 THEN 0 ELSE blocks[k].blen + SumLens(blocks, k - 1)

\* 0xC4 zero bytes, the section pointer, the section header, one record per
\* block, an all-zero record, and the blocks; the records list the blocks in
\* order, or in reverse order
Container(scheme, blocks, reversed) ==
    LET n == Len(blocks)
        section == MIN_FILE_LEN
        first == section + ENTRY_SIZE + (n + 1) * ENTRY_SIZE
        blockOf(r) == IF reversed THEN n + 1 - r ELSE r
        ptr(k) == first + SumLens(blocks, k - 1) - section
    IN  Zeros(DWAV_PTR_OFFSET) \o BE32(section) \o Zeros(ENTRY_SIZE)
        \o Concat([r \in 1..n |-> Record(LabelIdx(scheme, blockOf(r)), ptr(blockOf(r)))])
        \o Record(0, 0)
        \o Concat([k \in 1..n |-> Block(scheme, k, blocks[k])])

BlockParams == [marker : MarkerSamples, blen : BlockLens]

WellFormedWith(schemes, orders) ==
    {Container(scheme, blocks, reversed) :
        scheme \in schemes,
        blocks \in SeqsUpTo(BlockParams, MaxEntries),
        reversed \in orders}

\* a container with its section pointer replaced
WithPointer(d, p) ==
    Slice(d, 0, DWAV_PTR_OFFSET) \o BE32(p) \o Slice(d, MIN_FILE_LEN, Len(d))

OneBlock == Container("distinct", <<[marker |-> 2, blen |-> HEADER_SIZE + 2]>>, FALSE)

\* structurally broken files: empty, one byte short of the pointer field's
\* end, and a pointer at or past the end
Broken ==
    {<<>>, Slice(OneBlock, 0, MIN_FILE_LEN - 1),
     WithPointer(OneBlock, Len(OneBlock)), WithPointer(OneBlock, 2147483647)}

Containers == WellFormedWith(LabelSchemes, BOOLEAN) \cup Broken

\* the containers whose entries have different indexes and ascending offsets
PlainContainers == WellFormedWith({"distinct"}, {FALSE}) \cup Broken

-----------------------------------------------------------------------------
(* extract_mta *)

\* lines 218-221: the extent of entry k
entry_size(ents, k, d) ==
    IF k + 1 <= Len(ents) THEN ents[k + 1][2] - ents[k][2] ELSE Len(d) - ents[k][2]

\* a size check that only rejects negative extents
too_small_negative(sz) == sz < 0

\* line 223
too_small(sz) == sz < HEADER_SIZE

\* line 237
payload_too_small(pcm) == Len(pcm) < 2

\* an emptiness check that never fires
no_entries_ignored(ents) == FALSE

\* line 202
no_entries(ents) == ents = <<>>

\* `break` in place of `continue`: the loop ends
break_at(k, n) == n + 1

\* the loop tries entry k again
retry_at(k, n) == k

\* `continue`: the loop goes on with the entry after k, of n
continue_at(k, n) == k + 1

Return0(msg) ==
    /\ result' = 0
    /\ printed' = Append(printed, msg)
    /\ pc' = "done"

Init ==
    /\ pc = "start"
    /\ data = <<>>
    /\ dwav_section_start = None
    /\ entries = <<>>
    /\ LocalsInit
    /\ RunInit

\* lines 180-182
CheckExists ==
    /\ pc = "start"
    /\ \E exists \in BOOLEAN :
          IF exists
          THEN pc' = "read" /\ UNCHANGED <<result, printed>>
          ELSE Return0("not_found")
    /\ UNCHANGED <<data, dwav_section_start, entries, i, size, header, name,
                   sample_rate, channels, pcm_data, processed_pcm,
                   extracted_count, dir_exists, files, st, wav_calls,
                   parser_calls, io_failed>>

\* lines 184-188, the file holding one of the given containers
ReadBytesOf(containers) ==
    /\ pc = "read"
    /\ \/ /\ data' \in containers
          /\ pc' = "locate"
          /\ UNCHANGED <<result, printed>>
       \/ /\ Return0("read_error")
          /\ UNCHANGED data
    /\ UNCHANGED <<dwav_section_start, entries, i, size, header, name,
                   sample_rate, channels, pcm_data, processed_pcm,
                   extracted_count, dir_exists, files, st, wav_calls,
                   parser_calls, io_failed>>

ReadBytes == ReadBytesOf(Containers)

ReadPlainBytes == ReadBytesOf(PlainContainers)

\* lines 191-194
Locate ==
    /\ pc = "locate"
    /\ dwav_section_start' = find_dwav_section(data)
    /\ IF dwav_section_start' = None
       THEN Return0("no_dwav")
       ELSE pc' = "walk" /\ UNCHANGED <<result, printed>>
    /\ UNCHANGED <<data, entries, i, size, header, name, sample_rate, channels,
                   pcm_data, processed_pcm, extracted_count, dir_exists, files,
                   st, wav_calls, parser_calls, io_failed>>

\* lines 200-204
Walk ==
    /\ pc = "walk"
    /\ entries' = parse_audio_entries(data, dwav_section_start)
    /\ IF no_entries(entries')
       THEN Return0("no_entries")
       ELSE pc' = "mkdir" /\ UNCHANGED <<result, printed>>
    /\ UNCHANGED <<data, dwav_section_start, i, size, header, name, sample_rate,
                   channels, pcm_data, processed_pcm, extracted_count,
                   dir_exists, files, st, wav_calls, parser_calls, io_failed>>

\* lines 210-215: mkdir succeeds and the loop starts, or mkdir raises OSError,
\* which nothing catches
Mkdir ==
    /\ pc = "mkdir"
    /\ \/ /\ dir_exists' = TRUE
          /\ extracted_count' = 0
          /\ i' = 1
          /\ st' = [k \in 1..Len(entries) |-> "PENDING"]
          /\ pc' = "size"
       \/ /\ pc' = "raised"
          /\ UNCHANGED <<dir_exists, extracted_count, i, st>>
    /\ UNCHANGED <<data, dwav_section_start, entries, size, header, name,
                   sample_rate, channels, pcm_data, processed_pcm, files,
                   result, printed, wav_calls, parser_calls, io_failed>>

\* entry i leaves with the given state and the loop goes on
Leave(state) ==
    /\ st' = [st EXCEPT ![i] = state]
    /\ i' = continue_at(i, Len(entries))
    /\ pc' = "size"

\* lines 215-224
ComputeSize ==
    /\ pc = "size"
    /\ i <= Len(entries)
    /\ size' = entry_size(entries, i, data)
    /\ IF too_small(size')
       THEN Leave("SKIPPED")
       ELSE /\ st' = [st EXCEPT ![i] = "SIZED"]
            /\ pc' = "header"
            /\ UNCHANGED i
    /\ UNCHANGED <<data, dwav_section_start, entries, header, name, sample_rate,
                   channels, pcm_data, processed_pcm, extracted_count,
                   dir_exists, files, result, printed, wav_calls, parser_calls,
                   io_failed>>

\* lines 227-231
ParseHeader ==
    /\ pc = "header"
    /\ LET start == entries[i][2]
           h == Slice(data, start, start + HEADER_SIZE)
           parsed == parse_audio_header(h)
       IN  /\ header' = h
           /\ name' = extract_sample_name(h)
           /\ parser_calls' = Append(parser_calls,
                                     [entry |-> i, start |-> start, header |-> h])
           /\ IF parsed.raised
              THEN /\ Leave("FAILED")
                   /\ UNCHANGED <<sample_rate, channels>>
              ELSE /\ sample_rate' = parsed.sample_rate
                   /\ channels' = parsed.channels
                   /\ st' = [st EXCEPT ![i] = "HEADER_PARSED"]
                   /\ pc' = "payload"
                   /\ UNCHANGED i
    /\ UNCHANGED <<data, dwav_section_start, entries, size, pcm_data,
                   processed_pcm, extracted_count, dir_exists, files, result,
                   printed, wav_calls, io_failed>>

\* lines 234-241
PreparePayload ==
    /\ pc = "payload"
    /\ LET start == entries[i][2]
           pcm == Slice(data, start + HEADER_SIZE, start + size)
           r == process_pcm_data(pcm, channels)
       IN  /\ pcm_data' = pcm
           /\ IF payload_too_small(pcm)
              THEN Leave("SKIPPED") /\ UNCHANGED processed_pcm
              ELSE IF r.raised
              THEN Leave("FAILED") /\ UNCHANGED processed_pcm
              ELSE /\ processed_pcm' = r.bytes
                   /\ st' = [st EXCEPT ![i] = "PAYLOAD_READY"]
                   /\ pc' = "write"
                   /\ UNCHANGED i
    /\ UNCHANGED <<data, dwav_section_start, entries, size, header, name,
                   sample_rate, channels, extracted_count, dir_exists, files,
                   result, printed, wav_calls, parser_calls, io_failed>>

\* lines 244-254: the file cannot be opened; or it is opened (created or
\* truncated) and writing the frames fails; or it is written and counted
WriteWav ==
    /\ pc = "write"
    /\ LET idx == entries[i][1]
           out_path == out_name(idx, sanitize_filename(name, idx))
           call == [entry |-> i, path |-> out_path, channels |-> channels,
                    rate |-> sample_rate, pcm |-> processed_pcm]
       IN  \/ /\ Leave("FAILED")
              /\ io_failed' = io_failed \cup {i}
              /\ UNCHANGED <<files, wav_calls, extracted_count>>
           \/ /\ files' = files \cup {out_path}
              /\ wav_calls' = Append(wav_calls, call)
              /\ Leave("FAILED")
              /\ io_failed' = io_failed \cup {i}
              /\ UNCHANGED extracted_count
           \/ /\ files' = files \cup {out_path}
              /\ wav_calls' = Append(wav_calls, call)
              /\ extracted_count' = extracted_count + 1
              /\ Leave("WRITTEN")
              /\ UNCHANGED io_failed
    /\ UNCHANGED <<data, dwav_section_start, entries, size, header, name,
                   sample_rate, channels, pcm_data, processed_pcm, dir_exists,
                   result, printed, parser_calls>>

\* lines 264-265
Finish ==
    /\ pc = "size"
    /\ i > Len(entries)
    /\ printed' = Append(printed, "complete")
    /\ result' = extracted_count
    /\ pc' = "done"
    /\ UNCHANGED <<data, dwav_section_start, entries, i, size, header, name,
                   sample_rate, channels, pcm_data, processed_pcm,
                   extracted_count, dir_exists, files, st, wav_calls,
                   parser_calls, io_failed>>

Next ==
    \/ CheckExists
    \/ ReadBytes
    \/ Locate
    \/ Walk
    \/ Mkdir
    \/ ComputeSize
    \/ ParseHeader
    \/ PreparePayload
    \/ WriteWav
    \/ Finish

Spec == Init /\ [][Next]_vars

\* extract_mta on the containers whose entries have different indexes and
\* ascending offsets
NextPlain ==
    \/ CheckExists
    \/ ReadPlainBytes
    \/ Locate
    \/ Walk
    \/ Mkdir
    \/ ComputeSize
    \/ ParseHeader
    \/ PreparePayload
    \/ WriteWav
    \/ Finish

\* a step of the loop body
LoopStep == ComputeSize \/ ParseHeader \/ PreparePayload \/ WriteWav

\* the interpreter runs the loop body of a started call to its end
FairSpec == Init /\ [][NextPlain]_vars /\ WF_vars(LoopStep)

-----------------------------------------------------------------------------
(* What the properties speak about *)

Terminal == {"WRITTEN", "SKIPPED", "FAILED"}

\* the loop of extract_mta has been entered
LoopEntered == st # <<>>

\* entry k has been left by the loop
Handled(k) == LoopEntered /\ k \in 1..Len(entries) /\ k < i

StartOf(k) == entries[k][2]

\* the next entry's offset minus this one's, or the container length minus
\* this one's for the last entry
Extent(k) ==
    IF k < Len(entries) THEN StartOf(k + 1) - StartOf(k) ELSE Len(data) - StartOf(k)

PayloadLen(k) == Extent(k) - HEADER_SIZE

\* the channel marker of entry k is not 2
Mono(k) == data[StartOf(k) + CHANNEL_OFFSET + 1] # 2

\* length of the payload of entry k after the odd byte is dropped and, for
\* mono, the second half is
ProcessedLen(k) ==
    LET evenLen == PayloadLen(k) - (PayloadLen(k) % 2)
    IN  IF Mono(k) THEN evenLen \div 2 ELSE evenLen

\* entry k is one that is skipped or fails on its own account
SkipsOrFails(k) ==
    \/ Extent(k) < HEADER_SIZE
    \/ PayloadLen(k) < 2
    \/ ProcessedLen(k) % 2 # 0
    \/ k \in io_failed

\* the section pointer field
Pointer(d) == from_bytes_big(SubSeq(d, DWAV_PTR_OFFSET + 1, DWAV_PTR_OFFSET + 4))

Structural(d) ==
    \/ Len(d) < MIN_FILE_LEN
    \/ Pointer(d) >= Len(d)
    \/ ValidPrefix(d, Pointer(d)) = 0

-----------------------------------------------------------------------------
(* Properties of extract_mta *)

\* C1: a failure or skip of one entry never aborts the batch: once the loop is
\* entered no exception escapes, the run ends with every entry handled, and
\* every entry that does not itself fail or get skipped is written.
C1_BatchNeverAborted ==
    /\ LoopEntered => pc # "raised"
    /\ (LoopEntered /\ pc = "done") =>
          \A k \in 1..Len(entries) :
              /\ st[k] \in Terminal
              /\ st[k] = "WRITTEN" <=> ~SkipsOrFails(k)

\* a finished run whose first entry's write failed and whose second is written
C1_Witness ==
    /\ pc = "done"
    /\ Len(st) = 2
    /\ st[1] = "FAILED"
    /\ 1 \in io_failed
    /\ st[2] = "WRITTEN"

\* C3: no exception escapes extract_mta, and a finished run has reported a
\* message and returned a count.
C3_NoExceptionEscapes ==
    /\ pc # "raised"
    /\ pc = "done" => result >= 0 /\ printed # <<>>

\* C4: after a run into an empty output directory in which no write failed,
\* the number of distinct files in the directory equals the returned count.
C4_OneFilePerEntry ==
    (pc = "done" /\ io_failed = {}) => Cardinality(files) = result

\* C6: on a structural failure (container shorter than 0xC8 bytes, section
\* pointer >= length, or empty entry table) extract_mta goes no further than
\* the walker, returns zero with one message, processes no entry, does not
\* create the output directory and writes no file.
C6_StructuralFailure ==
    (pc \notin {"start", "read"} /\ Structural(data)) =>
        /\ pc \in {"locate", "walk", "done"}
        /\ ~dir_exists
        /\ files = {}
        /\ st = <<>>
        /\ parser_calls = <<>>
        /\ wav_calls = <<>>
        /\ pc = "done" => result = 0 /\ Len(printed) = 1

\* a finished run on a container with a valid pointer and an empty table
C6_Witness ==
    /\ pc = "done"
    /\ Len(data) >= MIN_FILE_LEN
    /\ Pointer(data) < Len(data)
    /\ ValidPrefix(data, Pointer(data)) = 0
    /\ printed = <<"no_entries">>

\* C7: the PCM bytes of every call of the WAV writer have even, nonzero
\* length; an entry whose processed PCM would be empty or of odd length is
\* skipped or failed; and the counter counts the written entries only.
C7_PcmEvenNonzero ==
    /\ \A c \in 1..Len(wav_calls) :
          Len(wav_calls[c].pcm) % 2 = 0 /\ Len(wav_calls[c].pcm) > 0
    /\ \A k \in 1..Len(st) :
          (Handled(k) /\ Extent(k) >= HEADER_SIZE
             /\ (ProcessedLen(k) <= 0 \/ ProcessedLen(k) % 2 # 0)) =>
              st[k] \in {"SKIPPED", "FAILED"}
    /\ extracted_count = Cardinality({k \in 1..Len(st) : st[k] = "WRITTEN"})

\* a mono entry with a payload of 2 or 3 bytes has failed without an I/O
\* error, and another entry has been handed to the writer
C7_Witness ==
    /\ wav_calls # <<>>
    /\ \E k \in 1..Len(st) :
          /\ Handled(k)
          /\ Extent(k) >= HEADER_SIZE
          /\ PayloadLen(k) \in {2, 3}
          /\ Mono(k)
          /\ st[k] = "FAILED"
          /\ k \notin io_failed

\* C9: the header parser is called only with the 80 bytes [start, start+80)
\* of the container; an entry whose extent is below 80 is skipped without the
\* parser being called; and the payload slice [start+80, start+extent) ends
\* inside the container.
C9_HeaderWindow ==
    /\ \A c \in 1..Len(parser_calls) :
          LET call == parser_calls[c]
          IN  /\ call.start >= 0
              /\ call.start + HEADER_SIZE <= Len(data)
              /\ call.header = SubSeq(data, call.start + 1, call.start + HEADER_SIZE)
              /\ Extent(call.entry) >= HEADER_SIZE
    /\ \A k \in 1..Len(st) :
          (Handled(k) /\ Extent(k) < HEADER_SIZE) =>
              /\ st[k] = "SKIPPED"
              /\ \A c \in 1..Len(parser_calls) : parser_calls[c].entry # k
    /\ pc \in {"header", "payload", "write"} =>
          /\ size = Extent(i)
          /\ StartOf(i) + size <= Len(data)
    /\ pc = "write" => pcm_data = SubSeq(data, StartOf(i) + HEADER_SIZE + 1, StartOf(i) + size)

\* a table whose offsets are not ascending: an entry of negative extent is
\* skipped and the parser has been called for another
C9_Witness ==
    /\ parser_calls # <<>>
    /\ \E k \in 1..Len(st) : Handled(k) /\ Extent(k) < 0 /\ st[k] = "SKIPPED"

\* the moves of one entry
Forward(a, b) ==
    \/ a = b
    \/ a = "PENDING" /\ b = "SIZED"
    \/ a = "SIZED" /\ b = "HEADER_PARSED"
    \/ a = "HEADER_PARSED" /\ b = "PAYLOAD_READY"
    \/ a = "PAYLOAD_READY" /\ b = "WRITTEN"
    \/ a \notin Terminal /\ b \in {"SKIPPED", "FAILED"}

\* entries before the loop position are in a terminal state, the one at it is
\* not, those after it are pending
InTableOrder ==
    \A k \in 1..Len(st) :
        /\ k < i => st[k] \in Terminal
        /\ k = i => st[k] \notin Terminal
        /\ k > i => st[k] = "PENDING"

EntryStep ==
    LoopEntered =>
        /\ DOMAIN st' = DOMAIN st
        /\ \A k \in 1..Len(st) : Forward(st[k], st'[k])
        /\ Cardinality({k \in 1..Len(st) : st'[k] # st[k]}) <= 1
        /\ extracted_count' =
              extracted_count
              + Cardinality({k \in 1..Len(st) : st[k] # "WRITTEN" /\ st'[k] = "WRITTEN"})

\* C8: per-entry extraction is a forward-only state machine: an entry moves
\* PENDING -> SIZED -> HEADER_PARSED -> PAYLOAD_READY -> WRITTEN or leaves to
\* SKIPPED or FAILED, one entry at a time in table order; a terminal state is
\* never left; the counter is incremented exactly when an entry becomes
\* WRITTEN; and once the loop is entered every entry eventually is in a
\* terminal state.
C8_ForwardOnly ==
    /\ [](LoopEntered => InTableOrder)
    /\ [][EntryStep]_vars
    /\ LoopEntered ~> (\A k \in 1..Len(st) : st[k] \in Terminal)

\* a finished run that skipped its first entry and wrote its second
C8_Witness ==
    /\ pc = "done"
    /\ st = <<"SKIPPED", "WRITTEN">>
    /\ extracted_count = 1

====
